---------------------------- MODULE Spec2Model ----------------------------
(***************************************************************************)
(* A model of stardicter/base.py: the StardictWriter class.                *)
(*                                                                         *)
(* Text is a sequence of Unicode code points, a byte string a sequence of  *)
(* numbers 0..255.  Five specifications share the module, one for each     *)
(* part of the class: SpecSort (getsortedwords), SpecConvert (convert),    *)
(* SpecChecksum (lines / is_data_line / get_checksum), SpecCache           *)
(* (load_config / save_config / was_changed / save_checksum) and SpecWrite *)
(* (write_words).                                                          *)
(***************************************************************************)
EXTENDS Naturals, Sequences, FiniteSets, TLC

VARIABLES
    ascii,          \* self.ascii      (__init__, line 78)
    notags,         \* self.notags     (__init__, line 79)
    deaccentMode,   \* what the 'deaccent' error handler does with a character
                    \* that has no ASCII equivalent: "drop" or "placeholder"
    items,          \* getsortedwords: the keys of `words` in iteration order
    sortedwords,    \* getsortedwords: the returned list, None before the call
    text,           \* convert: the argument
    converted,      \* convert: convert(text), None before the call
    reconverted,    \* convert: convert(convert(text)), None before the call
    dataA,          \* checksum: the downloaded data of one writer
    dataB,          \* checksum: the downloaded data of another writer
    predicate,      \* checksum: which is_data_line both writers use
    sumA,           \* checksum: get_checksum() of the first writer
    sumB,           \* checksum: get_checksum() of the second writer
    cfgfile,        \* cache: the file at CONFIGFILE
    writer,         \* cache: the StardictWriter object of the current run
    last,           \* cache: the last call made and how it ended
    everSaved,      \* cache: history, the keys some save has written
    hasFormatEntry, \* write: whether the writer's class defines formatentry
    files,          \* write: the .dict, .idx and .ifo files of one package
    wcall           \* write: the last write_words call and how it ended

flagVars  == <<ascii, notags, deaccentMode>>
sortVars  == <<items, sortedwords>>
convVars  == <<text, converted, reconverted>>
sumVars   == <<dataA, dataB, predicate, sumA, sumB>>
cacheVars == <<cfgfile, writer, last, everSaved>>
writeVars == <<hasFormatEntry, files, wcall>>
vars == <<flagVars, sortVars, convVars, sumVars, cacheVars, writeVars>>

(***************************************************************************)
(* Bounds of the model.                                                    *)
(***************************************************************************)
MaxWords == 3      \* keys in a word map
MaxTextLen == 4    \* code points in a text given to convert
MaxDataLen == 3    \* code points in a downloaded data file

None == <<>>
Some(v) == <<v>>

(***************************************************************************)
(* Python values: unicode.encode('utf-8'), str.lower(), comparison of      *)
(* strings and of tuples, list.sort().                                     *)
(***************************************************************************)
Utf8Char(c) ==
    IF c < 128 THEN <<c>>
    ELSE IF c < 2048 THEN <<192 + (c \div 64), 128 + (c % 64)>>
    ELSE <<224 + (c \div 4096), 128 + ((c \div 64) % 64), 128 + (c % 64)>>

RECURSIVE Utf8(_)
Utf8(s) == IF s = <<>> THEN <<>> ELSE Utf8Char(Head(s)) \o Utf8(Tail(s))

\* str.lower() of a byte string (C locale): only the bytes 'A'..'Z' change.
BytesLower(b) == [i \in DOMAIN b |-> IF b[i] \in 65..90 THEN b[i] + 32 ELSE b[i]]

\* a < b for two strings (sequences of numbers), as Python compares them.
RECURSIVE SeqLess(_, _)
SeqLess(a, b) ==
    IF b = <<>> THEN FALSE
    ELSE IF a = <<>> THEN TRUE
    ELSE IF Head(a) # Head(b) THEN Head(a) < Head(b)
    ELSE SeqLess(Tail(a), Tail(b))

\* The mutant of TupleLess: the tuples compared by their first item alone.
TupleLessKeyOnly(t, u) == SeqLess(t[1], u[1])

\* t < u for two (lowered bytes, item) tuples: the first items, then the second.
TupleLess(t, u) == SeqLess(t[1], u[1]) \/ (t[1] = u[1] /\ SeqLess(t[2], u[2]))

\* list.sort() is stable: t goes after every element that is not greater.
RECURSIVE InsertSorted(_, _)
InsertSorted(t, s) ==
    IF s = <<>> THEN <<t>>
    ELSE IF TupleLess(t, Head(s)) THEN <<t>> \o s
    ELSE <<Head(s)>> \o InsertSorted(t, Tail(s))

RECURSIVE SortTuples(_)
SortTuples(s) ==
    IF s = <<>> THEN <<>>
    ELSE InsertSorted(s[Len(s)], SortTuples(SubSeq(s, 1, Len(s) - 1)))

(***************************************************************************)
(* getsortedwords (lines 179-185).  `it` is the iteration order of words.  *)
(***************************************************************************)
getsortedwords(it) ==
    LET tuples == [i \in DOMAIN it |-> <<BytesLower(Utf8(it[i])), it[i]>>]
        sorted == SortTuples(tuples)
    IN  [i \in DOMAIN sorted |-> sorted[i][2]]

\* The keys a word map may hold: a, A, b, B, aB, Ab, É (U+00C9), ä (U+00E4),
\* é (U+00E9).
KeyUniverse ==
    { <<97>>, <<65>>, <<98>>, <<66>>, <<97, 66>>, <<65, 98>>,
      <<201>>, <<228>>, <<233>> }

\* Every order in which a dict with the keys S may be iterated.
Orders(S) ==
    { s \in [1..Cardinality(S) -> S] : \A i, j \in DOMAIN s : i # j => s[i] # s[j] }

KeySets == { S \in SUBSET KeyUniverse : Cardinality(S) <= MaxWords }


Range(s) == { s[i] : i \in DOMAIN s }

(***************************************************************************)
(* The idle values of each part, held by the specifications of the others. *)
(***************************************************************************)
IdleFlags == ascii = FALSE /\ notags = FALSE /\ deaccentMode = "drop"
IdleSort  == items = <<>> /\ sortedwords = None
IdleConv  == text = <<>> /\ converted = None /\ reconverted = None
IdleSum   ==
    /\ dataA = <<>> /\ dataB = <<>> /\ predicate = "base"
    /\ sumA = None /\ sumB = None

(***************************************************************************)
(* SpecSort: one call of getsortedwords on a dict iterated in some order.  *)
(***************************************************************************)
CallGetSortedWords ==
    /\ sortedwords = None
    /\ sortedwords' = Some(getsortedwords(items))
    /\ UNCHANGED <<items, flagVars, convVars, sumVars, cacheVars, writeVars>>

(***************************************************************************)
(* convert (lines 167-177) and STRIPTAGS (line 49).                        *)
(***************************************************************************)
\* The 'deaccent' error handler of unicode.encode: the replacement of one
\* character that ASCII cannot encode.  É -> E, ä -> a, é -> e; a character
\* with no ASCII equivalent (here the euro sign) is dropped or becomes '?'.
DeaccentChar(c, mode) ==
    CASE c = 201 -> <<69>>
      [] c = 228 -> <<97>>
      [] c = 233 -> <<101>>
      [] OTHER   -> IF mode = "drop" THEN <<>> ELSE <<63>>

\* text.encode('ascii', 'deaccent')
RECURSIVE EncodeAscii(_, _)
EncodeAscii(t, mode) ==
    IF t = <<>> THEN <<>>
    ELSE (IF Head(t) < 128 THEN <<Head(t)>> ELSE DeaccentChar(Head(t), mode))
         \o EncodeAscii(Tail(t), mode)

\* The least j > 1 with t[j] = '>', 0 when there is none.
FirstClose(t) ==
    IF \E j \in 2..Len(t) : t[j] = 62
    THEN CHOOSE j \in 2..Len(t) : t[j] = 62 /\ \A k \in 2..(j - 1) : t[k] # 62
    ELSE 0

\* The mutant of StripTags: the pattern <[^<]*?>, a tag may hold no '<'.
RECURSIVE StripTagsNoNested(_)
StripTagsNoNested(t) ==
    IF t = <<>> THEN <<>>
    ELSE IF /\ Head(t) = 60
            /\ FirstClose(t) # 0
            /\ \A k \in 2..(FirstClose(t) - 1) : t[k] # 60
         THEN StripTagsNoNested(SubSeq(t, FirstClose(t) + 1, Len(t)))
         ELSE <<Head(t)>> \o StripTagsNoNested(Tail(t))

\* STRIPTAGS.sub('', t) with STRIPTAGS = re.compile(r"<.*?>", re.DOTALL): left
\* to right, at a '<' followed anywhere (newlines included) by a '>', the text
\* up to the first such '>' is removed and the scan goes on after it.
RECURSIVE StripTags(_)
StripTags(t) ==
    IF t = <<>> THEN <<>>
    ELSE IF Head(t) = 60 /\ FirstClose(t) # 0
         THEN StripTags(SubSeq(t, FirstClose(t) + 1, Len(t)))
         ELSE <<Head(t)>> \o StripTags(Tail(t))

convert(t) ==
    LET a == IF ascii THEN EncodeAscii(t, deaccentMode) ELSE t
    IN  IF notags THEN StripTags(a) ELSE a

\* The characters of a text: '<', '>', 'a', newline, é (U+00E9), the euro
\* sign (U+20AC).
TextAlphabet == {60, 62, 97, 10, 233, 8364}

SeqsUpTo(S, n) == UNION { [1..k -> S] : k \in 0..n }

(***************************************************************************)
(* SpecConvert: convert(text), then convert of the result.                 *)
(***************************************************************************)
CallConvert ==
    /\ converted = None
    /\ converted' = Some(convert(text))
    /\ UNCHANGED <<text, reconverted, flagVars, sortVars, sumVars, cacheVars, writeVars>>

CallConvertAgain ==
    /\ converted # None
    /\ reconverted = None
    /\ reconverted' = Some(convert(converted[1]))
    /\ UNCHANGED <<text, converted, flagVars, sortVars, sumVars, cacheVars, writeVars>>

(***************************************************************************)
(* lines (92-97), is_data_line (123-128), get_checksum (130-138).          *)
(***************************************************************************)
\* The least j with d[j] = newline, 0 when there is none.
FirstNewline(d) ==
    IF \E j \in DOMAIN d : d[j] = 10
    THEN CHOOSE j \in DOMAIN d : d[j] = 10 /\ \A k \in 1..(j - 1) : d[k] # 10
    ELSE 0

\* str.splitlines(): the line ends are dropped, and a final line end opens
\* no empty last line.
RECURSIVE splitlines(_)
splitlines(d) ==
    IF d = <<>> THEN <<>>
    ELSE IF FirstNewline(d) = 0 THEN <<d>>
    ELSE <<SubSeq(d, 1, FirstNewline(d) - 1)>>
         \o splitlines(SubSeq(d, FirstNewline(d) + 1, Len(d)))

lines(d) == splitlines(d)

\* A subclass's is_data_line, which leaves volatile lines (those that start
\* with '#', such as a timestamp) out of the checksum.
IsDataLineOverride(line) == line = <<>> \/ line[1] # 35

\* is_data_line of the class p: the base class takes every line.
is_data_line(p, line) == IF p = "base" THEN TRUE ELSE IsDataLineOverride(line)

\* md5.update(line): the digest is a function of the bytes fed so far.
Md5Update(acc, line) == acc \o line

\* md5.hexdigest(), the digest taken as injective on the bytes fed.
HexDigest(acc) == [md5 |-> acc]

\* The loop of lines 135-137.
RECURSIVE Md5Lines(_, _, _)
Md5Lines(ls, p, acc) ==
    IF ls = <<>> THEN acc
    ELSE Md5Lines(Tail(ls), p,
                  IF is_data_line(p, Head(ls)) THEN Md5Update(acc, Head(ls)) ELSE acc)

\* The mutant of get_checksum: every line is fed, is_data_line is not asked.
get_checksum_unfiltered(d, p) == HexDigest(Md5Lines(lines(d), "base", <<>>))

get_checksum(d, p) == HexDigest(Md5Lines(lines(d), p, <<>>))

\* The characters of a data file: 'x', '#', newline.
DataAlphabet == {120, 35, 10}

Predicates == {"base", "nocomment"}

(***************************************************************************)
(* SpecChecksum: two writers with the same is_data_line compute their      *)
(* checksums.                                                              *)
(***************************************************************************)
ChecksumA ==
    /\ sumA = None
    /\ sumA' = Some(get_checksum(dataA, predicate))
    /\ UNCHANGED <<dataA, dataB, predicate, sumB, flagVars, sortVars, convVars, cacheVars, writeVars>>

ChecksumB ==
    /\ sumB = None
    /\ sumB' = Some(get_checksum(dataB, predicate))
    /\ UNCHANGED <<dataA, dataB, predicate, sumA, flagVars, sortVars, convVars, cacheVars, writeVars>>

(***************************************************************************)
(* The checksum cache: get_filename (108-115), the data and checksum       *)
(* properties (83-106), load_config (273-281), save_config (283-290),      *)
(* was_changed (292-300), save_checksum (302-307).                         *)
(*                                                                         *)
(* The file at CONFIGFILE is missing, or holds text that is no JSON        *)
(* ("garbage"), or holds a JSON object, kept as the sequence of its        *)
(* (key, value) members.  A call ends with exc = "" (it returned) or with  *)
(* the name of the exception it raised.                                    *)
(***************************************************************************)
EmptyMap == [k \in {} |-> None]

MissingFile == [kind |-> "missing", members |-> <<>>]
GarbageFile == [kind |-> "garbage", members |-> <<>>]
JsonFile(m) == [kind |-> "json", members |-> m]

\* json.dump(config, handle): the members of the object, each key once.
JsonDump(config) ==
    CHOOSE m \in [1..Cardinality(DOMAIN config) -> (DOMAIN config) \X Range(config)] :
        /\ \A i, j \in DOMAIN m : i # j => m[i][1] # m[j][1]
        /\ \A i \in DOMAIN m : m[i][2] = config[m[i][1]]

\* json.load(handle) of a JSON object: a dict, the last member of a key wins.
JsonLoad(m) ==
    [k \in { m[i][1] : i \in DOMAIN m } |->
        LET i == CHOOSE i \in DOMAIN m :
                    m[i][1] = k /\ \A j \in DOMAIN m : m[j][1] = k => j <= i
        IN  m[i][2]]

\* load_config: open() is outside the try, so its IOError is not caught;
\* json.load's ValueError is, and gives {}.
load_config(f) ==
    IF f.kind = "missing" THEN [exc |-> "IOError", value |-> EmptyMap]
    ELSE IF f.kind = "garbage" THEN [exc |-> "", value |-> EmptyMap]
    ELSE [exc |-> "", value |-> JsonLoad(f.members)]

\* config.update(changes)
DictUpdate(config, changes) ==
    [k \in DOMAIN config \cup DOMAIN changes |->
        IF k \in DOMAIN changes THEN changes[k] ELSE config[k]]

\* save_config: the file after the call, and how the call ended.
save_config(f, changes) ==
    LET r == load_config(f)
    IN  IF r.exc # "" THEN [exc |-> r.exc, file |-> f]
        ELSE [exc |-> "", file |-> JsonFile(JsonDump(DictUpdate(r.value, changes)))]

get_filename(w, forward) ==
    IF forward THEN w.prefix \o w.source \o "-" \o w.target
    ELSE w.prefix \o w.target \o "-" \o w.source

\* The data property: download() is called once and its result kept.
WithData(w) == IF w._data = None THEN [w EXCEPT !._data = Some(w.download)] ELSE w

\* The checksum property: get_checksum() is called once and its result kept.
WithChecksum(w) ==
    IF w._checksum = None
    THEN [WithData(w) EXCEPT
            !._checksum = Some(get_checksum(WithData(w)._data[1], w.pred))]
    ELSE w

\* The classes of writers: the base class (source 'aa', target 'bb', every
\* line a data line) and a subclass with its own languages and is_data_line.
WriterClasses ==
    { [prefix |-> "", source |-> "aa", target |-> "bb", pred |-> "base"],
      [prefix |-> "", source |-> "cs", target |-> "en", pred |-> "nocomment"] }

\* __init__ (lines 74-81) of a writer whose download() will return d.
NewWriter(c, d) ==
    [prefix |-> c.prefix, source |-> c.source, target |-> c.target,
     pred |-> c.pred, download |-> d, _data |-> None, _checksum |-> None]

\* What download() may return: "x", "xx", "x\n#".
CacheData == { <<120>>, <<120, 120>>, <<120, 10, 35>> }

PackageKeys == { get_filename(NewWriter(c, <<>>), TRUE) : c \in WriterClasses }

Checksums == { get_checksum(d, p) : d \in CacheData, p \in Predicates }

\* The arguments given to save_config.
ChangeSets == UNION { [S -> Checksums] : S \in SUBSET PackageKeys }

Call(op, exc, ret, value, arg, before, prev) ==
    [op |-> op, exc |-> exc, ret |-> ret, value |-> value, arg |-> arg,
     before |-> before, prev |-> prev]

NoCall == Call("", "", "", EmptyMap, EmptyMap, MissingFile, [op |-> "", exc |-> ""])

Prev == [op |-> last.op, exc |-> last.exc]

IdleCache ==
    /\ cfgfile = MissingFile
    /\ writer = NewWriter(CHOOSE c \in WriterClasses : c.pred = "base", <<>>)
    /\ last = NoCall
    /\ everSaved = EmptyMap

(***************************************************************************)
(* SpecCache: runs of the program, each with a writer of its own, that     *)
(* call load_config, was_changed, save_checksum and save_config.           *)
(***************************************************************************)
NewRun(c, d) ==
    /\ writer' = NewWriter(c, d)
    /\ last' = Call("__init__", "", "None", EmptyMap, EmptyMap, cfgfile, Prev)
    /\ UNCHANGED <<cfgfile, everSaved, flagVars, sortVars, convVars, sumVars, writeVars>>

CallLoadConfig ==
    LET r == load_config(cfgfile)
    IN  /\ last' = Call("load_config", r.exc, IF r.exc = "" THEN "dict" ELSE "",
                        r.value, EmptyMap, cfgfile, Prev)
        /\ UNCHANGED <<cfgfile, writer, everSaved, flagVars, sortVars, convVars, sumVars, writeVars>>

CallWasChanged ==
    LET key == get_filename(writer, TRUE)
        r   == load_config(cfgfile)
        w   == WithChecksum(writer)
    IN  /\ IF r.exc # ""
           THEN /\ last' = Call("was_changed", r.exc, "", EmptyMap, EmptyMap, cfgfile, Prev)
                /\ writer' = writer
           ELSE IF key \notin DOMAIN r.value
           THEN /\ last' = Call("was_changed", "", "True", EmptyMap, EmptyMap, cfgfile, Prev)
                /\ writer' = writer
           ELSE /\ last' = Call("was_changed", "",
                                IF w._checksum[1] # r.value[key] THEN "True" ELSE "False",
                                EmptyMap, EmptyMap, cfgfile, Prev)
                /\ writer' = w
        /\ UNCHANGED <<cfgfile, everSaved, flagVars, sortVars, convVars, sumVars, writeVars>>

Saved(r, changes) == IF r.exc = "" THEN DictUpdate(everSaved, changes) ELSE everSaved

CallSaveConfig(changes) ==
    LET r == save_config(cfgfile, changes)
    IN  /\ cfgfile' = r.file
        /\ last' = Call("save_config", r.exc, IF r.exc = "" THEN "None" ELSE "",
                        EmptyMap, changes, cfgfile, Prev)
        /\ everSaved' = Saved(r, changes)
        /\ UNCHANGED <<writer, flagVars, sortVars, convVars, sumVars, writeVars>>

CallSaveChecksum ==
    LET key     == get_filename(writer, TRUE)
        w       == WithChecksum(writer)
        changes == [k \in {key} |-> w._checksum[1]]
        r       == save_config(cfgfile, changes)
    IN  /\ writer' = w
        /\ cfgfile' = r.file
        /\ last' = Call("save_checksum", r.exc, IF r.exc = "" THEN "None" ELSE "",
                        EmptyMap, changes, cfgfile, Prev)
        /\ everSaved' = Saved(r, changes)
        /\ UNCHANGED <<flagVars, sortVars, convVars, sumVars, writeVars>>

(***************************************************************************)
(* write_words (lines 187-236).                                            *)
(***************************************************************************)
\* struct.pack('!I', n): four bytes, the most significant first.
Pack32(n) ==
    << (n \div 16777216) % 256, (n \div 65536) % 256, (n \div 256) % 256, n % 256 >>

\* The names module base.py binds: its imports (lines 21-25), its assignments
\* (lines 28-54) and its class (line 57).
ModuleGlobals ==
    { "hashlib", "os", "datetime", "re", "json", "README_TEXT", "STRIPTAGS",
      "CONFIGFILE", "AUTHOR", "URL", "StardictWriter" }

\* The parameters and local variables of write_words.
WriteWordsLocals ==
    { "self", "directory", "filename", "name", "words", "offset", "count",
      "idxsize", "basefilename", "dictn", "idxn", "ifon", "dictf", "idxf",
      "key", "deftext", "entry", "ifof" }

\* Whether name n, met in write_words, is bound: a local, else a global of the
\* module (no builtin is named wlist or struct); if not, NameError is raised.
Bound(n) == n \in WriteWordsLocals \cup ModuleGlobals

\* formatentry of a subclass: the rendered text of one definition.
formatentry(d) == d

\* The body of the loop (lines 206-220) for one key.  Line 207 loads
\* self.formatentry, then wlist; line 215 loads struct.
LoopBody(st, key, words) ==
    IF ~hasFormatEntry THEN [st EXCEPT !.exc = "AttributeError"]
    ELSE IF ~Bound("wlist") THEN [st EXCEPT !.exc = "NameError"]
    ELSE LET deftext == convert(formatentry(words[key]))
             entry   == Utf8(deftext)
             st1     == [st EXCEPT !.dictf = @ \o entry,
                                   !.idxf = @ \o Utf8(convert(key)) \o <<0>>]
         IN  IF ~Bound("struct") THEN [st1 EXCEPT !.exc = "NameError"]
             ELSE [st1 EXCEPT !.idxf = @ \o Pack32(st.offset) \o Pack32(Len(entry)),
                              !.offset = @ + Len(entry),
                              !.count = @ + 1]

\* The loop of line 205, left by the first exception.
RECURSIVE WriteLoop(_, _, _)
WriteLoop(keys, words, st) ==
    IF keys = <<>> \/ st.exc # "" THEN st
    ELSE WriteLoop(Tail(keys), words, LoopBody(st, Head(keys), words))

NoFiles == [dict |-> None, idx |-> None, ifo |-> None]

\* write_words on the word map `words`, iterated in the order `order`: the
\* three files after the call and how it ended.  open(.., 'w') empties the
\* .dict and the .idx; the .ifo is written only when the loop has ended.
write_words(f, name, words, order) ==
    LET st0 == [dictf |-> <<>>, idxf |-> <<>>, offset |-> 0, count |-> 0, exc |-> ""]
        st  == WriteLoop(getsortedwords(order), words, st0)
        idxsize == Len(st.idxf)
    IN  IF st.exc # ""
        THEN [exc |-> st.exc,
              files |-> [f EXCEPT !.dict = Some(st.dictf), !.idx = Some(st.idxf)]]
        ELSE [exc |-> "",
              files |-> [dict |-> Some(st.dictf),
                         idx  |-> Some(st.idxf),
                         ifo  |-> Some([version |-> "2.4.2",
                                        bookname |-> Utf8(convert(name)),
                                        wordcount |-> st.count,
                                        idxfilesize |-> idxsize,
                                        author |-> "Stardicter",
                                        website |-> "https://cihar.com/software/slovnik/",
                                        sametypesequence |-> "g"])]]

\* The keys of a word map: a, A, <b>a; its definitions: g, <i>é.
WriteKeys == { <<97>>, <<65>>, <<60, 98, 62, 97>> }
Definitions == { <<103>>, <<60, 105, 62, 233>> }
WordMaps ==
    UNION { [S -> Definitions] : S \in { T \in SUBSET WriteKeys : Cardinality(T) <= MaxWords } }

\* The name of a package: <G>.
PackageNames == { <<60, 71, 62>> }

NoWrite == [done |-> FALSE, exc |-> "", words |-> EmptyMap, order |-> <<>>]

IdleWrite == hasFormatEntry = FALSE /\ files = NoFiles /\ wcall = NoWrite

(***************************************************************************)
(* SpecWrite: calls of write_words for one package.                        *)
(***************************************************************************)
CallWriteWords(name, words, order) ==
    LET r == write_words(files, name, words, order)
    IN  /\ files' = r.files
        /\ wcall' = [done |-> TRUE, exc |-> r.exc, words |-> words, order |-> order]
        /\ UNCHANGED <<hasFormatEntry, flagVars, sortVars, convVars, sumVars, cacheVars>>

(***************************************************************************)
(* The specifications.                                                     *)
(***************************************************************************)
Flags ==
    /\ ascii \in BOOLEAN
    /\ notags \in BOOLEAN
    /\ deaccentMode \in {"drop", "placeholder"}

InitSort ==
    /\ items \in UNION { Orders(S) : S \in KeySets }
    /\ sortedwords = None
    /\ IdleFlags /\ IdleConv /\ IdleSum /\ IdleCache /\ IdleWrite

NextSort == CallGetSortedWords

SpecSort == InitSort /\ [][NextSort]_vars

InitConvert ==
    /\ Flags
    /\ text \in SeqsUpTo(TextAlphabet, MaxTextLen)
    /\ converted = None
    /\ reconverted = None
    /\ IdleSort /\ IdleSum /\ IdleCache /\ IdleWrite

NextConvert == CallConvert \/ CallConvertAgain

SpecConvert == InitConvert /\ [][NextConvert]_vars

InitChecksum ==
    /\ dataA \in SeqsUpTo(DataAlphabet, MaxDataLen)
    /\ dataB \in SeqsUpTo(DataAlphabet, MaxDataLen)
    /\ predicate \in Predicates
    /\ sumA = None
    /\ sumB = None
    /\ IdleFlags /\ IdleSort /\ IdleConv /\ IdleCache /\ IdleWrite

NextChecksum == ChecksumA \/ ChecksumB

SpecChecksum == InitChecksum /\ [][NextChecksum]_vars

InitCache ==
    /\ cfgfile \in {MissingFile, GarbageFile, JsonFile(<<>>)}
    /\ writer \in { NewWriter(c, d) : c \in WriterClasses, d \in CacheData }
    /\ last = NoCall
    /\ everSaved = EmptyMap
    /\ IdleFlags /\ IdleSort /\ IdleConv /\ IdleSum /\ IdleWrite

NextCache ==
    \/ \E c \in WriterClasses, d \in CacheData : NewRun(c, d)
    \/ CallLoadConfig
    \/ CallWasChanged
    \/ CallSaveChecksum
    \/ \E changes \in ChangeSets : CallSaveConfig(changes)

SpecCache == InitCache /\ [][NextCache]_vars

InitWrite ==
    /\ Flags
    /\ hasFormatEntry \in BOOLEAN
    /\ files = NoFiles
    /\ wcall = NoWrite
    /\ IdleSort /\ IdleConv /\ IdleSum /\ IdleCache

NextWrite ==
    \E name \in PackageNames, words \in WordMaps :
        \E order \in Orders(DOMAIN words) : CallWriteWords(name, words, order)

SpecWrite == InitWrite /\ [][NextWrite]_vars

(***************************************************************************)
(* The properties.                                                         *)
(***************************************************************************)
\* unicode.lower() on the code points of the model: A-Z and the capitals of
\* Latin-1 (U+00C0..U+00DE but the multiplication sign) have a lower case.
UnicodeLowerChar(c) ==
    IF c \in 65..90 \/ (c \in 192..222 /\ c # 215) THEN c + 32 ELSE c

UnicodeLower(s) == [i \in DOMAIN s |-> UnicodeLowerChar(s[i])]

\* The returned list is the same for every iteration order of the same keys
\* and holds every key exactly once.
SortDeterministic(r) ==
    /\ \A o \in Orders(Range(items)) : getsortedwords(o) = r
    /\ Len(r) = Len(items)
    /\ Range(r) = Range(items)

HasTag(t) == \E i, j \in DOMAIN t : i < j /\ t[i] = 60 /\ t[j] = 62

\* C9: convert(convert(t)) = convert(t) for every text and both flags, and
\* with notags the converted text holds no match of the tag pattern.
C9_ConvertIdempotent ==
    /\ reconverted # None => reconverted = converted
    /\ (converted # None /\ notags) => ~HasTag(converted[1])

\* Both flags set, on a text with a tag and a character outside ASCII, of
\* which something is left; converted twice.
C9_Witness ==
    /\ reconverted # None
    /\ ascii /\ notags
    /\ HasTag(text)
    /\ \E i \in DOMAIN text : text[i] >= 128
    /\ converted[1] # <<>>
    /\ converted[1] # text

\* The lines of ls that is_data_line of class p accepts, in their order.
Accepted(ls, p) == SelectSeq(ls, LAMBDA l : is_data_line(p, l))

\* la and lb are the same lines but for line i.
SingleChange(la, lb, i) ==
    /\ Len(la) = Len(lb)
    /\ i \in DOMAIN la
    /\ la[i] # lb[i]
    /\ \A j \in DOMAIN la : j # i => la[j] = lb[j]

\* Equal inputs, and inputs with the same accepted lines, have equal checksums.
ChecksumStable ==
    /\ dataA = dataB => sumA = sumB
    /\ Accepted(lines(dataA), predicate) = Accepted(lines(dataB), predicate)
           => sumA = sumB

\* C8, as stated: equal inputs have equal checksums, inputs that differ only
\* in rejected lines have equal checksums, and a change of any single accepted
\* line changes the checksum.
C8_AnyAcceptedLineChange ==
    (sumA # None /\ sumB # None) =>
        /\ ChecksumStable
        /\ \A i \in DOMAIN lines(dataA) :
               ( /\ SingleChange(lines(dataA), lines(dataB), i)
                 /\ is_data_line(predicate, lines(dataA)[i]) )
               => sumA # sumB

\* C8, amended: equal inputs have equal checksums, inputs that differ only in
\* rejected lines have equal checksums, and a change of a single accepted line
\* changes the checksum unless the line was empty and the line that replaces
\* it is rejected by is_data_line.
C8_AcceptedLineChange ==
    (sumA # None /\ sumB # None) =>
        /\ ChecksumStable
        /\ \A i \in DOMAIN lines(dataA) :
               ( /\ SingleChange(lines(dataA), lines(dataB), i)
                 /\ is_data_line(predicate, lines(dataA)[i])
                 /\ \/ is_data_line(predicate, lines(dataB)[i])
                    \/ lines(dataA)[i] # <<>> )
               => sumA # sumB

\* Two inputs with a rejected line each that differ in one accepted line, and
\* their checksums, which differ.
C8_Witness ==
    /\ sumA # None /\ sumB # None
    /\ predicate = "nocomment"
    /\ \E i \in DOMAIN lines(dataA) :
           /\ SingleChange(lines(dataA), lines(dataB), i)
           /\ is_data_line(predicate, lines(dataA)[i])
    /\ \E j \in DOMAIN lines(dataA) : ~is_data_line(predicate, lines(dataA)[j])
    /\ sumA # sumB

\* The record the cache file holds: none when it is missing or no JSON.
Persisted(f) == IF f.kind = "json" THEN JsonLoad(f.members) ELSE EmptyMap

Unreadable(f) == f.kind \in {"missing", "garbage"}

\* C4: was_changed returns True when the key was never saved, False right
\* after save_checksum stored the checksum, and True when the checksum of the
\* input differs from the one saved.
C4_WasChanged ==
    last.op = "was_changed" =>
        LET key == get_filename(writer, TRUE)
            cur == get_checksum(writer.download, writer.pred)
        IN  /\ key \notin DOMAIN everSaved => last.ret = "True"
            /\ (last.prev.op = "save_checksum" /\ last.prev.exc = "")
                   => last.ret = "False"
            /\ (key \in DOMAIN everSaved /\ everSaved[key] # cur)
                   => last.ret = "True"

\* C5: after save_config or save_checksum, every key the cache held and the
\* argument does not name is kept with its value, every key of the argument
\* has the new value, and no key is gone.
C5_SaveMerges ==
    last.op \in {"save_config", "save_checksum"} =>
        LET old == Persisted(last.before)
            new == Persisted(cfgfile)
        IN  /\ \A k \in DOMAIN old \ DOMAIN last.arg :
                   k \in DOMAIN new /\ new[k] = old[k]
            /\ \A k \in DOMAIN last.arg :
                   k \in DOMAIN new /\ new[k] = last.arg[k]
            /\ DOMAIN old \subseteq DOMAIN new

\* C6: on a missing cache file and on one that is no JSON, load_config
\* returns {} and raises nothing, was_changed returns True and save_config
\* stores its argument.
C6_UnreadableIsEmpty ==
    Unreadable(last.before) =>
        /\ last.op = "load_config" => (last.exc = "" /\ last.value = EmptyMap)
        /\ last.op = "was_changed" => (last.exc = "" /\ last.ret = "True")
        /\ last.op \in {"save_config", "save_checksum"}
               => (last.exc = "" /\ Persisted(cfgfile) = last.arg)

\* The reader of an .idx file: records of a key ended by a zero byte and two
\* numbers of four bytes.
Unpack32(b) == ((b[1] * 256 + b[2]) * 256 + b[3]) * 256 + b[4]

FirstNul(b) ==
    IF \E j \in DOMAIN b : b[j] = 0
    THEN CHOOSE j \in DOMAIN b : b[j] = 0 /\ \A k \in 1..(j - 1) : b[k] # 0
    ELSE 0

RECURSIVE ParseIdx(_)
ParseIdx(b) ==
    IF FirstNul(b) = 0 \/ Len(b) < FirstNul(b) + 8 THEN <<>>
    ELSE LET z == FirstNul(b)
         IN  << [key    |-> SubSeq(b, 1, z - 1),
                 offset |-> Unpack32(SubSeq(b, z + 1, z + 4)),
                 length |-> Unpack32(SubSeq(b, z + 5, z + 8))] >>
             \o ParseIdx(SubSeq(b, z + 9, Len(b)))

IdxRecords == IF files.idx = None THEN <<>> ELSE ParseIdx(files.idx[1])

DictBlob == IF files.dict = None THEN <<>> ELSE files.dict[1]

\* The bytes of the entry of `key`: formatted, converted, encoded.
Rendered(key) == Utf8(convert(formatentry(wcall.words[key])))

RECURSIVE SumLengths(_, _)
SumLengths(recs, n) == IF n = 0 THEN 0 ELSE recs[n].length + SumLengths(recs, n - 1)

C3_WordCount ==
    wcall.done =>
        /\ files.ifo # None
        /\ Len(IdxRecords) = files.ifo[1].wordcount
        /\ files.ifo[1].wordcount = Cardinality(DOMAIN wcall.words)

=============================================================================
